---- MODULE Spec2Model ----
(***************************************************************************)
(* hayabusa detection engine: the concurrent rule scheduler                *)
(* (Detection::start / execute_rules / execute_rule), the aggregation post *)
(* pass (add_aggcondtion_msg), the alert sink MESSAGES and the summary     *)
(* (print_unique_results) of src/src/detections/detection.rs.              *)
(*                                                                         *)
(* Strings that the code converts (level, Computer, EventID, timeframe)    *)
(* are sequences of one-character strings; strings that are only copied    *)
(* (rulepath, title, output, file path) are TLA+ strings.                  *)
(***************************************************************************)
EXTENDS Integers, Sequences, FiniteSets, Bags, TLC

(***************************************************************************)
(* Bounds of the model.                                                    *)
(***************************************************************************)
\* rules handed to Detection::new
MaxRules == 2
\* records of the batch handed to Detection::start
MaxRecords == 2
\* records of the batch in the aggregation scenarios
MaxAggRecords == 3
\* largest wall-clock time (in ticks) one unit may measure
MaxElapsed == 1

\* rules of the severity scenarios
MaxLevelRules == 2
\* rule files ParseYaml::read_dir found
MaxFiles == 3
\* file names handed to check_exist_geo_ip_files
MaxCheckFiles == 3
\* concurrent calls of convert_ip_to_geo
MaxCalls == 2

(***************************************************************************)
(* Values.                                                                 *)
(***************************************************************************)
\* serde_json Value restricted to what the engine reads: a string, a number
\* or nothing (Value::Null, which indexing a missing key yields)
JStr(s) == [kind |-> "str", s |-> s, n |-> 0]
JNum(n) == [kind |-> "num", s |-> <<>>, n |-> n]
JNull == [kind |-> "null", s |-> <<>>, n |-> 0]

\* Value::as_str().unwrap_or(default)
AsStrOr(v, default) == IF v.kind = "str" THEN v.s ELSE default

LowerChars == <<"a","b","c","d","e","f","g","h","i","j","k","l","m",
                "n","o","p","q","r","s","t","u","v","w","x","y","z">>
UpperChars == <<"A","B","C","D","E","F","G","H","I","J","K","L","M",
                "N","O","P","Q","R","S","T","U","V","W","X","Y","Z">>

\* char::to_uppercase on the ASCII range
UpperChar(c) ==
    IF \E i \in 1..Len(LowerChars) : LowerChars[i] = c
    THEN UpperChars[CHOOSE i \in 1..Len(LowerChars) : LowerChars[i] = c]
    ELSE c

\* str::to_uppercase
ToUppercase(s) == [i \in 1..Len(s) |-> UpperChar(s[i])]

DigitChars == <<"0","1","2","3","4","5","6","7","8","9">>

\* decimal rendering of a natural number (Display for u64)
RECURSIVE NatToString(_)
NatToString(n) ==
    IF n < 10 THEN <<DigitChars[n + 1]>>
    ELSE NatToString(n \div 10) \o <<DigitChars[(n % 10) + 1]>>

RECURSIVE Flatten(_)
Flatten(ss) == IF ss = <<>> THEN <<>> ELSE Head(ss) \o Flatten(Tail(ss))

\* serde_json's escaping of one character inside a JSON string
EscapeChar(c) ==
    IF c = "\"" THEN <<"\\", "\"">>
    ELSE IF c = "\\" THEN <<"\\", "\\">>
    ELSE <<c>>

\* Value::to_string(): the JSON text of the value
JsonToString(v) ==
    IF v.kind = "str"
    THEN <<"\"">> \o Flatten([i \in 1..Len(v.s) |-> EscapeChar(v.s[i])]) \o <<"\"">>
    ELSE IF v.kind = "num" THEN NatToString(v.n)
    ELSE <<"n","u","l","l">>

\* str::replace("\"", "")
RemoveQuotes(s) == SelectSeq(s, LAMBDA c : c # "\"")

\* record["Event"]["System"]["Computer"].to_string().replace("\"", "")
ComputerName(rec) == RemoveQuotes(JsonToString(rec.computer))

\* utils::get_serde_number_to_string(...).unwrap_or("-"): the record's event
\* identifier as text, "-" when the record has none
EventIdString(rec) ==
    IF rec.eventid.kind = "str" THEN rec.eventid.s
    ELSE IF rec.eventid.kind = "num" THEN NatToString(rec.eventid.n)
    ELSE <<"-">>

(***************************************************************************)
(* Rules and records.                                                      *)
(*                                                                         *)
(* A record (EvtxRecordInfo) is [filepath, eventid, computer, user, time]: *)
(* its source path and the fields of its JSON document the engine reads.   *)
(* A rule (RuleNode) is [rulepath, level, title, output, timeframe, sel,   *)
(* selhosts, agg, countdata, duration]: rulepath and the yaml fields, the   *)
(* selection (the event identifiers and the hosts it selects), the         *)
(* aggregation clause [has, op, num, by], the accumulated matches and the  *)
(* running duration.                                                       *)
(***************************************************************************)
NoAgg == [has |-> FALSE, op |-> "", num |-> 0, by |-> FALSE]

\* RuleNode::has_agg_condition
HasAggCondition(rule) == rule.agg.has

\* RecordMatcher: the rule's selection evaluated on one record, a pure
\* function of (selection, record); a missing field never matches
SelectionMatches(rule, rec) ==
    \/ rec.eventid.kind = "num" /\ rec.eventid.n \in rule.sel
    \/ rec.computer.kind = "str" /\ rec.computer.s \in rule.selhosts

\* the grouping key derived from the record: the by-field's value, a
\* sentinel when the rule has no by-field or the record lacks the field
CountKey(rule, rec) ==
    IF rule.agg.has /\ rule.agg.by THEN AsStrOr(rec.user, <<"_">>) ELSE <<"_">>

\* the entry a matched record leaves in the rule's accumulated match state
CountEntry(rule, rec) ==
    [key |-> CountKey(rule, rec), time |-> rec.time, filepath |-> rec.filepath]

\* RuleNode::select: evaluate the selection and, on a match, register the
\* record in the rule's own accumulated match state; yields <<matched, rule'>>
SelectRule(rule, rec) ==
    IF SelectionMatches(rule, rec)
    THEN <<TRUE, [rule EXCEPT !.countdata = Append(@, CountEntry(rule, rec))]>>
    ELSE <<FALSE, rule>>

\* RuleNode::check_exist_countdata: the rule has accumulated a match
CheckExistCountdata(rule) == Len(rule.countdata) > 0

(***************************************************************************)
(* AggregationEngine (RuleNode::judge_satisfy_aggcondition).               *)
(***************************************************************************)
DigitValue(c) == (CHOOSE i \in 1..10 : DigitChars[i] = c) - 1
IsDigit(c) == \E i \in 1..10 : DigitChars[i] = c

RECURSIVE ParseNat(_)
ParseNat(s) ==
    IF s = <<>> THEN 0
    ELSE ParseNat(SubSeq(s, 1, Len(s) - 1)) * 10 + DigitValue(s[Len(s)])

\* the window length in minutes of a timeframe such as "5m"; 0 (one
\* unbounded window) when the rule has no well-formed timeframe
TimeframeMinutes(rule) ==
    LET tf == AsStrOr(rule.timeframe, <<>>)
    IN  IF Len(tf) >= 2 /\ tf[Len(tf)] = "m"
           /\ \A i \in 1..(Len(tf) - 1) : IsDigit(tf[i])
        THEN ParseNat(SubSeq(tf, 1, Len(tf) - 1))
        ELSE 0

\* variant: the records of a key are sorted by timestamp before bucketing,
\* so the windows are anchored at the key's earliest record
KeyAnchorEarliest(countdata, key) ==
    LET times == {countdata[i].time :
                      i \in {j \in 1..Len(countdata) : countdata[j].key = key}}
    IN  CHOOSE t \in times : \A x \in times : t <= x

\* the timestamp of the first record registered under the key
KeyAnchor(countdata, key) ==
    countdata[CHOOSE i \in 1..Len(countdata) :
                 /\ countdata[i].key = key
                 /\ \A j \in 1..(i - 1) : countdata[j].key # key].time

\* the window of an entry: its distance from the key's anchor, truncated
\* to the window length
WindowOf(countdata, width, e) ==
    IF width = 0 THEN 0 ELSE (e.time - KeyAnchor(countdata, e.key)) \div width

\* the (grouping key, window) bucket of an entry
BucketOf(countdata, width, e) == <<e.key, WindowOf(countdata, width, e)>>

\* the entries of countdata that fall in the bucket
BucketMembers(countdata, width, b) ==
    {i \in 1..Len(countdata) : BucketOf(countdata, width, countdata[i]) = b}

\* the configured comparison of a bucket's count against the threshold
CompareCount(op, count, num) ==
    CASE op = ">"  -> count > num
      [] op = ">=" -> count >= num
      [] op = "==" -> count = num
      [] op = "<"  -> count < num
      [] op = "<=" -> count <= num
      [] OTHER     -> FALSE

OpChars(op) ==
    CASE op = ">"  -> <<">">>
      [] op = ">=" -> <<">", "=">>
      [] op = "==" -> <<"=", "=">>
      [] op = "<"  -> <<"<">>
      [] op = "<=" -> <<"<", "=">>
      [] OTHER     -> <<>>

\* the AggResult of a bucket: grouping key, window start, operator label,
\* source path of the bucket's first record (and the count it reached)
MakeAggResult(rule, width, b) ==
    LET members == BucketMembers(rule.countdata, width, b)
        first == CHOOSE i \in members : \A j \in members : i <= j
    IN  [key |-> b[1],
         start_timedate |-> KeyAnchor(rule.countdata, b[1]) + b[2] * width,
         condition_op_num |-> OpChars(rule.agg.op) \o <<" ">> \o NatToString(rule.agg.num),
         filepath |-> rule.countdata[first].filepath,
         data |-> Cardinality(members)]

\* the results for the entries from position i on, one per bucket, at the
\* bucket's first entry
RECURSIVE AggResultsFrom(_, _, _)
AggResultsFrom(rule, width, i) ==
    IF i > Len(rule.countdata) THEN <<>>
    ELSE LET b == BucketOf(rule.countdata, width, rule.countdata[i])
             members == BucketMembers(rule.countdata, width, b)
             opens == \A j \in members : i <= j
         IN  (IF opens /\ CompareCount(rule.agg.op, Cardinality(members), rule.agg.num)
              THEN <<MakeAggResult(rule, width, b)>>
              ELSE <<>>) \o AggResultsFrom(rule, width, i + 1)

\* RuleNode::judge_satisfy_aggcondition: one AggResult per bucket whose
\* count satisfies the comparison
JudgeSatisfyAggcondition(rule) == AggResultsFrom(rule, TimeframeMinutes(rule), 1)

(***************************************************************************)
(* AlertFormatter: the alerts handed to the sink.                          *)
(***************************************************************************)
\* str::split("_"): the pieces between the underscores (one piece, the
\* whole string, when there is none)
RECURSIVE SplitUnderscore(_)
SplitUnderscore(s) ==
    IF \E i \in 1..Len(s) : s[i] = "_"
    THEN LET p == CHOOSE i \in 1..Len(s) :
                     s[i] = "_" /\ \A j \in 1..(i - 1) : s[j] # "_"
         IN  <<SubSeq(s, 1, p - 1)>> \o SplitUnderscore(SubSeq(s, p + 1, Len(s)))
    ELSE <<s>>

\* Detection::create_count_output
CreateCountOutput(rule, aggResult) ==
    LET key == SplitUnderscore(aggResult.key)
    IN  <<"c","o","u","n","t","(">>
        \o (IF Len(key) >= 1 THEN key[1] ELSE <<>>)
        \o <<")"," ">>
        \o (IF Len(key) >= 2 THEN <<"b","y"," ">> \o key[2] ELSE <<>>)
        \o aggResult.condition_op_num \o <<" ","i","n"," ">>
        \o AsStrOr(rule.timeframe, <<>>) \o <<".">>

\* variant: the JSON text of Computer is passed on with its quotes
DirectAlertQuotedHost(rule, rec) ==
    [filepath |-> rec.filepath,
     rulepath |-> rule.rulepath,
     record |-> <<rec>>,
     time |-> rec.time,
     level |-> AsStrOr(rule.level, <<"-">>),
     computername |-> JsonToString(rec.computer),
     eventid |-> EventIdString(rec),
     alert |-> rule.title,
     detail |-> rule.output]

\* the arguments Detection::insert_message passes to Message::insert
DirectAlert(rule, rec) ==
    [filepath |-> rec.filepath,
     rulepath |-> rule.rulepath,
     record |-> <<rec>>,
     time |-> rec.time,
     level |-> AsStrOr(rule.level, <<"-">>),
     computername |-> ComputerName(rec),
     eventid |-> EventIdString(rec),
     alert |-> rule.title,
     detail |-> rule.output]

\* the arguments Detection::insert_agg_message passes to Message::insert_message
AggAlert(rule, aggResult) ==
    [filepath |-> aggResult.filepath,
     rulepath |-> rule.rulepath,
     record |-> <<>>,
     time |-> aggResult.start_timedate,
     level |-> AsStrOr(rule.level, <<>>),
     computername |-> <<"-">>,
     eventid |-> <<"-">>,
     alert |-> rule.title,
     detail |-> CreateCountOutput(rule, aggResult)]

(***************************************************************************)
(* ResultSummary: the severity table of print_unique_results.              *)
(***************************************************************************)
S_CRITICAL == <<"C","R","I","T","I","C","A","L">>
S_HIGH == <<"H","I","G","H">>
S_MEDIUM == <<"M","E","D","I","U","M">>
S_LOW == <<"L","O","W">>
S_INFORMATIONAL == <<"I","N","F","O","R","M","A","T","I","O","N","A","L">>

\* print_unique_results: levellabel
LevelLabel == <<"Critical", "High", "Medium", "Low", "Informational", "Undefined">>

\* configs::LEVELMAP.get(key).unwrap_or(&0): the position of a level in
\* levelcounts, [(Undefined), (Informational), (Low), (Medium), (High), (Critical)]
LevelMapGetOr0(key) ==
    CASE key = S_INFORMATIONAL -> 1
      [] key = S_LOW           -> 2
      [] key = S_MEDIUM        -> 3
      [] key = S_HIGH          -> 4
      [] key = S_CRITICAL      -> 5
      [] OTHER                 -> 0

\* variant: the level is looked up as written, without to_uppercase
LevelSuffixAsWritten(rule) == LevelMapGetOr0(AsStrOr(rule.level, <<>>))

\* print_unique_results: the index `suffix` of the rule's level
LevelSuffix(rule) == LevelMapGetOr0(ToUppercase(AsStrOr(rule.level, <<>>)))

\* print_unique_results: levelcounts after the loop over the first n rules
\* (position p of the sequence is index p - 1 of the Vec)
RECURSIVE LevelCounts(_, _)
LevelCounts(rs, n) ==
    IF n = 0 THEN <<0, 0, 0, 0, 0, 0>>
    ELSE LET before == LevelCounts(rs, n - 1)
         IN  IF CheckExistCountdata(rs[n])
             THEN [before EXCEPT ![LevelSuffix(rs[n]) + 1] = @ + 1]
             ELSE before

\* Vec::reverse
Reverse(v) == [i \in 1..Len(v) |-> v[Len(v) + 1 - i]]

\* print_unique_results: the lines "<label> alerts: <value>", in order
UniqueResultLines(rs) ==
    LET levelcounts == Reverse(LevelCounts(rs, Len(rs)))
    IN  [i \in 1..Len(levelcounts) |-> [label |-> LevelLabel[i], value |-> levelcounts[i]]]

RECURSIVE SumSeq(_)
SumSeq(v) == IF v = <<>> THEN 0 ELSE Head(v) + SumSeq(Tail(v))

\* print_unique_results: total_unique
TotalUnique(rs) == SumSeq(LevelCounts(rs, Len(rs)))

(***************************************************************************)
(* State.                                                                  *)
(***************************************************************************)
VARIABLES
    inputRules,   \* the rules handed to Detection::new, as loaded
    records,      \* the record batch (Arc<Vec<EvtxRecordInfo>>), read-only
    selfRules,    \* Detection.rules (empty while the rules are moved out)
    movedRules,   \* execute_rules: the local `rules` that self.rules is moved into
    mainPc,       \* position of the thread that calls Detection::start
    spawnIdx,     \* execute_rules: next rule to spawn a unit for
    joinIdx,      \* execute_rules: next handle to await
    joined,       \* execute_rules: the local Vec `rules` being reassembled
    unitPc,       \* per spawned unit (handle): position of the task
    unitIdx,      \* per spawned unit: position of execute_rule's loop in the batch
    unitRule,     \* per spawned unit: the RuleNode the task owns
    aggIdx,       \* add_aggcondtion_msg: position of the loop over the rules
    aggQueue,     \* add_aggcondtion_msg: agg_results still to insert
    messages,     \* the sink MESSAGES: the alerts, in insertion order
    lockHolder,   \* the thread that holds the lock of MESSAGES
    guard,        \* per thread: the store as seen through its MutexGuard
    insertCalls,  \* number of calls of insert_message / insert_agg_message
    printed,      \* what print_unique_results printed (empty before)
    \* Detection::create_count_output called on its own
    fmtArgs,      \* the arguments <<rule, agg_result>> (empty: no call)
    fmtRet,       \* the String returned (empty: not returned yet)
    \* Detection::parse_rule_files
    rulefile_loader,   \* the ParseYaml after read_dir: files, errorrule_count
    loadPc,            \* position of parse_rule_files
    fileIdx,           \* position of the iterator over rulefile_loader.files
    ret,               \* the rules collected so far, then returned
    parseerror_count,  \* the error tally
    warned,            \* the rule paths reported by AlertMessage::warn, in order
    loadInfo,          \* what print_rule_load_info printed (empty before)
    \* GeoIPSearch::check_exist_geo_ip_files
    geo_ip_dir_path,   \* the Option<PathBuf> argument
    check_files,       \* the Vec<&str> argument
    existingFiles,     \* the paths for which Path::exists holds
    checkRet,          \* the Result returned (empty: not returned yet)
    \* GeoIPSearch::convert_ip_to_geo
    readers,      \* the three maxminddb readers of the GeoIPSearch: the addresses each finds
    IP_MAP,       \* the cache: a function from the addresses it holds to their geo data
    ipMapHolder,  \* the call that holds the lock of IP_MAP
    callPc,       \* per call: position in convert_ip_to_geo
    callAddr,     \* per call: addr
    callGeo,      \* per call: the locals cached_data, asn, country, city (<<>>: unset)
    callRet,      \* per call: the Result returned (<<>>: not returned yet)
    callLookups   \* per call: number of Reader::lookup calls made

detectionVars ==
    <<inputRules, records, selfRules, movedRules, mainPc, spawnIdx, joinIdx, joined,
      unitPc, unitIdx, unitRule, aggIdx, aggQueue, messages, lockHolder,
      guard, insertCalls, printed>>
formatVars == <<fmtArgs, fmtRet>>
loaderVars ==
    <<rulefile_loader, loadPc, fileIdx, ret, parseerror_count, warned, loadInfo>>
geoCheckVars == <<geo_ip_dir_path, check_files, existingFiles, checkRet>>
geoCacheVars ==
    <<readers, IP_MAP, ipMapHolder, callPc, callAddr, callGeo, callRet, callLookups>>

vars == <<detectionVars, formatVars, loaderVars, geoCheckVars, geoCacheVars>>

\* what Detection::start, add_aggcondtion_msg and print_unique_results never touch
outsideDetection == <<formatVars, loaderVars, geoCheckVars, geoCacheVars>>

NumRules == Len(inputRules)
NumRecords == Len(records)
\* the units spawned so far, in the order of `handles`
Units == 1..Len(unitPc)
\* the thread that runs Detection::start, add_aggcondtion_msg and the summary
MainThread == 0
NoThread == -1

(***************************************************************************)
(* Inputs.                                                                 *)
(***************************************************************************)
Record(eventid, computer, user, time) ==
    [filepath |-> "a.evtx", eventid |-> eventid, computer |-> computer,
     user |-> user, time |-> time]

\* a rule as RuleCatalog hands it over: validated, nothing accumulated yet
Rule(level, sel, agg, timeframe) ==
    [rulepath |-> "", level |-> level, title |-> "title", output |-> "output",
     timeframe |-> timeframe, sel |-> sel, selhosts |-> {}, agg |-> agg,
     countdata |-> <<>>, duration |-> 0]

\* a rule whose selection is on the host of the record
HostRule(level, hosts, agg, timeframe) ==
    [Rule(level, {}, agg, timeframe) EXCEPT !.selhosts = hosts]

CountAgg(op, num, by) == [has |-> TRUE, op |-> op, num |-> num, by |-> by]

\* rule files are distinct: the rule at position i is loaded from file i
RulePath(i) == "rule" \o ToString(i) \o ".yml"
WithPaths(kinds) == [i \in 1..Len(kinds) |-> [kinds[i] EXCEPT !.rulepath = RulePath(i)]]

\* all sequences over S of length lo..hi
SeqsOf(S, lo, hi) == UNION {[1..n -> S] : n \in lo..hi}

\* the records of the scheduling scenarios
RecordPool ==
    { Record(JNum(1), JStr(<<"p","c","1">>), JStr(<<"a">>), 0),
      Record(JNum(2), JStr(<<"p","c","2">>), JStr(<<"b">>), 1),
      Record(JNull, JNull, JNull, 2) }

\* the rules of the scheduling scenarios
RuleKinds ==
    { Rule(JStr(<<"h","i","g","h">>), {1}, NoAgg, JNull),
      Rule(JStr(<<"l","o","w">>), {1, 2}, CountAgg(">=", 2, TRUE), JStr(<<"2","m">>)),
      Rule(JNull, {2}, CountAgg(">=", 1, TRUE), JStr(<<"2","m">>)) }

(***************************************************************************)
(* Initial states: Detection::new(rules) has run and Detection::start is   *)
(* about to be called with the batch.                                      *)
(***************************************************************************)
InitWith(rs, recs) ==
    /\ inputRules = rs
    /\ records = recs
    /\ selfRules = rs
    /\ movedRules = <<>>
    /\ mainPc = "start"
    /\ spawnIdx = 1
    /\ joinIdx = 1
    /\ joined = <<>>
    /\ unitPc = <<>>
    /\ unitIdx = <<>>
    /\ unitRule = <<>>
    /\ aggIdx = 1
    /\ aggQueue = <<>>
    /\ messages = <<>>
    /\ lockHolder = NoThread
    /\ guard = [t \in 0..Len(rs) |-> <<>>]
    /\ insertCalls = 0
    /\ printed = <<>>

\* no call of create_count_output on its own is under way
NoCountOutputCall == fmtArgs = <<>> /\ fmtRet = <<>>

\* no rule load is under way
NoRuleLoad ==
    /\ rulefile_loader = <<>>
    /\ loadPc = "idle"
    /\ fileIdx = 1
    /\ ret = <<>>
    /\ parseerror_count = 0
    /\ warned = <<>>
    /\ loadInfo = <<>>

\* no check of the GeoIP files is under way
NoGeoIpCheck ==
    /\ geo_ip_dir_path = <<>>
    /\ check_files = <<>>
    /\ existingFiles = {}
    /\ checkRet = <<>>

\* no GeoIPSearch exists and nothing calls convert_ip_to_geo
NoGeoIpSearch ==
    /\ readers = <<>>
    /\ IP_MAP = <<>>
    /\ ipMapHolder = NoThread
    /\ callPc = <<>>
    /\ callAddr = <<>>
    /\ callGeo = <<>>
    /\ callRet = <<>>
    /\ callLookups = <<>>

\* the state outside a detection run in the scenarios of Detection::start
DetectionOnly == NoCountOutputCall /\ NoRuleLoad /\ NoGeoIpCheck /\ NoGeoIpSearch

\* no detection runs: a Detection without rules that is never started
NoDetection == InitWith(<<>>, <<>>)

Init ==
    /\ \E kinds \in SeqsOf(RuleKinds, 1, MaxRules) :
           \E recs \in SeqsOf(RecordPool, 0, MaxRecords) :
               InitWith(WithPaths(kinds), recs)
    /\ DetectionOnly

(***************************************************************************)
(* The sink MESSAGES, a Mutex around the alert store.                      *)
(***************************************************************************)
\* variant: the store is reached without mutual exclusion
LockNotExclusive(holder) == TRUE

\* Mutex::lock returns once no thread holds the lock
LockAvailable(holder) == holder = NoThread

\* Message::insert / insert_message: the store with the alert added
StoreInsert(store, alert) == Append(store, alert)

\* MESSAGES.lock(): thread t takes the lock; its guard gives it the store
AcquireMessages(t) ==
    /\ LockAvailable(lockHolder)
    /\ lockHolder' = t
    /\ guard' = [guard EXCEPT ![t] = messages]
    /\ insertCalls' = insertCalls + 1

\* .insert(...) through the guard, which is dropped at the end of the statement
InsertAndRelease(t, alert) ==
    /\ messages' = StoreInsert(guard[t], alert)
    /\ guard' = [guard EXCEPT ![t] = <<>>]
    /\ lockHolder' = IF lockHolder = t THEN NoThread ELSE lockHolder

(***************************************************************************)
(* Detection::start / execute_rules (the scheduler).                       *)
(***************************************************************************)
\* start: block_on(execute_rules(records)); execute_rules moves self.rules out
Start ==
    /\ mainPc = "start"
    /\ mainPc' = "execute_rules"
    /\ movedRules' = selfRules
    /\ selfRules' = <<>>
    /\ spawnIdx' = 1
    /\ UNCHANGED <<inputRules, records, joinIdx, joined, unitPc, unitIdx, unitRule,
                   aggIdx, aggQueue, messages, lockHolder, guard, insertCalls, printed>>
    /\ UNCHANGED outsideDetection

\* rules.into_iter(): the rule the i-th spawned task takes ownership of
TaskRule(rs, i) == rs[i]

\* execute_rules: spawn the unit of the next rule; the new task may run at once
Spawn ==
    /\ mainPc = "execute_rules"
    /\ spawnIdx <= Len(movedRules)
    /\ unitPc' = Append(unitPc, "select")
    /\ unitIdx' = Append(unitIdx, 1)
    /\ unitRule' = Append(unitRule, TaskRule(movedRules, spawnIdx))
    /\ spawnIdx' = spawnIdx + 1
    /\ UNCHANGED <<inputRules, records, selfRules, movedRules, mainPc, joinIdx, joined,
                   aggIdx, aggQueue, messages, lockHolder, guard, insertCalls, printed>>
    /\ UNCHANGED outsideDetection

\* variant: the tasks are detached, the scheduler does not wait for them
HandleReadyDetached(pc) == TRUE

\* variant: the JoinError of a failed task is dropped instead of unwrapped
HandleReadyOrPanicked(pc) == pc \in {"done", "panicked"}

\* JoinHandle::await is ready once the task has run to its end
HandleReady(pc) == pc = "done"

\* variant: the handles are awaited in the order the tasks complete
NextHandleCompleted(pcs, j) ==
    IF \E u \in 1..Len(pcs) : pcs[u] = "done"
    THEN CHOOSE u \in 1..Len(pcs) : pcs[u] = "done"
    ELSE j

\* `for handle in handles`: the handle awaited after j - 1 were awaited
NextHandle(pcs, j) == j

\* rules.push(ret_rule)
PushRule(rs, rule) == Append(rs, rule)

\* variant: only the first handle is awaited
AwaitedFirstOnly(j, n) == j > 1 \/ j > n

\* `for handle in handles` ends once every handle was awaited
AllHandlesAwaited(j, n) == j > n

\* execute_rules: handle.await.unwrap() on the next handle, in spawn order
AwaitHandle ==
    /\ mainPc = "execute_rules"
    /\ spawnIdx > Len(movedRules)
    /\ ~AllHandlesAwaited(joinIdx, Len(unitPc))
    /\ LET h == NextHandle(unitPc, joinIdx)
       IN  /\ HandleReady(unitPc[h])
           /\ joined' = PushRule(joined, unitRule[h])
           /\ unitPc' = [unitPc EXCEPT ![h] = IF @ = "done" THEN "joined" ELSE @]
    /\ joinIdx' = joinIdx + 1
    /\ UNCHANGED <<inputRules, records, selfRules, movedRules, mainPc, spawnIdx,
                   unitIdx, unitRule, aggIdx, aggQueue, messages, lockHolder,
                   guard, insertCalls, printed>>
    /\ UNCHANGED outsideDetection

\* execute_rules: the awaited task panicked: unwrap() of the JoinError panics
\* and the panic leaves block_on; no Detection is returned
AwaitPanicked ==
    /\ mainPc = "execute_rules"
    /\ spawnIdx > Len(movedRules)
    /\ ~AllHandlesAwaited(joinIdx, Len(unitPc))
    /\ unitPc[NextHandle(unitPc, joinIdx)] = "panicked"
    /\ mainPc' = "panicked"
    /\ UNCHANGED <<inputRules, records, selfRules, movedRules, spawnIdx, joinIdx, joined,
                   unitPc, unitIdx, unitRule, aggIdx, aggQueue, messages, lockHolder,
                   guard, insertCalls, printed>>
    /\ UNCHANGED outsideDetection

\* execute_rules: self.rules = rules; return self
ExecuteRulesReturn ==
    /\ mainPc = "execute_rules"
    /\ spawnIdx > Len(movedRules)
    /\ AllHandlesAwaited(joinIdx, Len(unitPc))
    /\ selfRules' = joined
    /\ mainPc' = "returned"
    /\ UNCHANGED <<inputRules, records, movedRules, spawnIdx, joinIdx, joined,
                   unitPc, unitIdx, unitRule, aggIdx, aggQueue, messages, lockHolder,
                   guard, insertCalls, printed>>
    /\ UNCHANGED outsideDetection

(***************************************************************************)
(* Detection::execute_rule (one unit).                                     *)
(***************************************************************************)
\* variant: the `continue` on a record that does not match is missing
InsertsNowUnmatched(result, agg_condition) == ~agg_condition

\* variant: the test of agg_condition is missing
InsertsNowWithAgg(result, agg_condition) == result

\* execute_rule: whether the record's alert is inserted at once
\* (`if !result { continue; }` and `if !agg_condition { insert_message }`)
InsertsNow(result, agg_condition) == result /\ ~agg_condition

\* variant: the matches are accumulated in a store the rules share, keyed
\* by the grouping field alone
AfterSelectShared(rs, u, rec) ==
    [v \in DOMAIN rs |->
        IF v = u THEN SelectRule(rs[u], rec)[2]
        ELSE IF /\ SelectRule(rs[u], rec)[1]
                /\ rs[u].agg.has /\ rs[v].agg.has /\ rs[u].agg.by = rs[v].agg.by
             THEN [rs[v] EXCEPT !.countdata = Append(@, CountEntry(rs[u], rec))]
             ELSE rs[v]]

\* the rules of the units after unit u ran rule.select on the record
AfterSelect(rs, u, rec) == [rs EXCEPT ![u] = SelectRule(@, rec)[2]]

\* variant: the batch is walked from its end
RecordInfoReversed(recs, i) == recs[Len(recs) + 1 - i]

\* `for record_info in records`: the record of the i-th iteration
RecordInfo(recs, i) == recs[i]

\* execute_rule: one iteration of the loop up to the call of insert_message
ExecuteRuleStep(u) ==
    /\ unitPc[u] = "select"
    /\ unitIdx[u] <= NumRecords
    /\ LET rec == RecordInfo(records, unitIdx[u])
           agg_condition == HasAggCondition(unitRule[u])
           result == SelectRule(unitRule[u], rec)[1]
       IN  /\ unitRule' = AfterSelect(unitRule, u, rec)
           /\ IF InsertsNow(result, agg_condition)
              THEN unitPc' = [unitPc EXCEPT ![u] = "lock"] /\ UNCHANGED unitIdx
              ELSE unitIdx' = [unitIdx EXCEPT ![u] = @ + 1] /\ UNCHANGED unitPc
    /\ UNCHANGED <<inputRules, records, selfRules, movedRules, mainPc, spawnIdx, joinIdx,
                   joined, aggIdx, aggQueue, messages, lockHolder, guard, insertCalls,
                   printed>>
    /\ UNCHANGED outsideDetection

\* insert_message: MESSAGES.lock().unwrap()
LockMessages(u) ==
    /\ unitPc[u] = "lock"
    /\ AcquireMessages(u)
    /\ unitPc' = [unitPc EXCEPT ![u] = "insert"]
    /\ UNCHANGED <<inputRules, records, selfRules, movedRules, mainPc, spawnIdx, joinIdx,
                   joined, unitIdx, unitRule, aggIdx, aggQueue, messages, printed>>
    /\ UNCHANGED outsideDetection

\* insert_message: .insert(...) of the record's alert; the loop goes on
InsertMessage(u) ==
    /\ unitPc[u] = "insert"
    /\ InsertAndRelease(u, DirectAlert(unitRule[u], RecordInfo(records, unitIdx[u])))
    /\ unitPc' = [unitPc EXCEPT ![u] = "select"]
    /\ unitIdx' = [unitIdx EXCEPT ![u] = @ + 1]
    /\ UNCHANGED <<inputRules, records, selfRules, movedRules, mainPc, spawnIdx, joinIdx,
                   joined, unitRule, aggIdx, aggQueue, insertCalls, printed>>
    /\ UNCHANGED outsideDetection

\* execute_rule: rule.duration += start.elapsed(); return rule
ExecuteRuleReturn(u) ==
    /\ unitPc[u] = "select"
    /\ unitIdx[u] > NumRecords
    /\ \E elapsed \in 1..MaxElapsed :
           unitRule' = [unitRule EXCEPT ![u].duration = @ + elapsed]
    /\ unitPc' = [unitPc EXCEPT ![u] = "done"]
    /\ UNCHANGED <<inputRules, records, selfRules, movedRules, mainPc, spawnIdx, joinIdx,
                   joined, unitIdx, aggIdx, aggQueue, messages, lockHolder, guard,
                   insertCalls, printed>>
    /\ UNCHANGED outsideDetection

\* a fault inside the unit: the task panics while evaluating a record
UnitPanic(u) ==
    /\ unitPc[u] = "select"
    /\ unitIdx[u] <= NumRecords
    /\ unitPc' = [unitPc EXCEPT ![u] = "panicked"]
    /\ UNCHANGED <<inputRules, records, selfRules, movedRules, mainPc, spawnIdx, joinIdx,
                   joined, unitIdx, unitRule, aggIdx, aggQueue, messages, lockHolder,
                   guard, insertCalls, printed>>
    /\ UNCHANGED outsideDetection

(***************************************************************************)
(* Detection::add_aggcondtion_msg (the post pass) and the summary.         *)
(***************************************************************************)
\* the caller goes on to add_aggcondtion_msg with the returned Detection
AddAggcondtionMsg ==
    /\ mainPc = "returned"
    /\ mainPc' = "agg"
    /\ aggIdx' = 1
    /\ aggQueue' = <<>>
    /\ UNCHANGED <<inputRules, records, selfRules, movedRules, spawnIdx, joinIdx, joined,
                   unitPc, unitIdx, unitRule, messages, lockHolder, guard, insertCalls,
                   printed>>
    /\ UNCHANGED outsideDetection

\* variant: only the first AggResult of a rule is inserted
AggResultsToInsertFirst(rule) ==
    IF HasAggCondition(rule) /\ JudgeSatisfyAggcondition(rule) # <<>>
    THEN <<Head(JudgeSatisfyAggcondition(rule))>>
    ELSE <<>>

\* variant: a rule whose comparison holds of the count 0 also gets a result
\* for a timeframe in which nothing was observed
AggResultsToInsertWithEmpty(rule) ==
    IF HasAggCondition(rule)
    THEN JudgeSatisfyAggcondition(rule)
         \o (IF CompareCount(rule.agg.op, 0, rule.agg.num)
             THEN <<[key |-> <<"_">>, start_timedate |-> 0,
                     condition_op_num |-> OpChars(rule.agg.op) \o <<" ">>
                                          \o NatToString(rule.agg.num),
                     filepath |-> "", data |-> 0]>>
             ELSE <<>>)
    ELSE <<>>

\* add_aggcondtion_msg: the AggResults to insert for a rule
AggResultsToInsert(rule) ==
    IF HasAggCondition(rule) THEN JudgeSatisfyAggcondition(rule) ELSE <<>>

\* add_aggcondtion_msg: the next rule of the loop: skip it, or evaluate it
AggNextRule ==
    /\ mainPc = "agg"
    /\ aggIdx <= Len(selfRules)
    /\ LET agg_results == AggResultsToInsert(selfRules[aggIdx])
       IN  IF agg_results = <<>>
           THEN aggIdx' = aggIdx + 1 /\ UNCHANGED <<mainPc, aggQueue>>
           ELSE aggQueue' = agg_results /\ mainPc' = "agg_lock" /\ UNCHANGED aggIdx
    /\ UNCHANGED <<inputRules, records, selfRules, movedRules, spawnIdx, joinIdx, joined,
                   unitPc, unitIdx, unitRule, messages, lockHolder, guard, insertCalls,
                   printed>>
    /\ UNCHANGED outsideDetection

\* insert_agg_message: MESSAGES.lock().unwrap()
LockMessagesAgg ==
    /\ mainPc = "agg_lock"
    /\ AcquireMessages(MainThread)
    /\ mainPc' = "agg_insert"
    /\ UNCHANGED <<inputRules, records, selfRules, movedRules, spawnIdx, joinIdx, joined,
                   unitPc, unitIdx, unitRule, aggIdx, aggQueue, messages, printed>>
    /\ UNCHANGED outsideDetection

\* insert_agg_message: .insert_message(...) of the next AggResult's alert
InsertAggMessage ==
    /\ mainPc = "agg_insert"
    /\ InsertAndRelease(MainThread, AggAlert(selfRules[aggIdx], Head(aggQueue)))
    /\ aggQueue' = Tail(aggQueue)
    /\ IF Tail(aggQueue) = <<>>
       THEN aggIdx' = aggIdx + 1 /\ mainPc' = "agg"
       ELSE UNCHANGED aggIdx /\ mainPc' = "agg_lock"
    /\ UNCHANGED <<inputRules, records, selfRules, movedRules, spawnIdx, joinIdx, joined,
                   unitPc, unitIdx, unitRule, insertCalls, printed>>
    /\ UNCHANGED outsideDetection

\* add_aggcondtion_msg returns; print_unique_results prints the table
PrintUniqueResults ==
    /\ mainPc = "agg"
    /\ aggIdx > Len(selfRules)
    /\ printed' = UniqueResultLines(selfRules)
                  \o <<[label |-> "Unique", value |-> TotalUnique(selfRules)]>>
    /\ mainPc' = "done"
    /\ UNCHANGED <<inputRules, records, selfRules, movedRules, spawnIdx, joinIdx, joined,
                   unitPc, unitIdx, unitRule, aggIdx, aggQueue, messages, lockHolder,
                   guard, insertCalls>>
    /\ UNCHANGED outsideDetection

Next ==
    \/ Start
    \/ Spawn
    \/ AwaitHandle
    \/ AwaitPanicked
    \/ ExecuteRulesReturn
    \/ \E u \in Units : ExecuteRuleStep(u)
    \/ \E u \in Units : LockMessages(u)
    \/ \E u \in Units : InsertMessage(u)
    \/ \E u \in Units : ExecuteRuleReturn(u)
    \/ \E u \in Units : UnitPanic(u)
    \/ AddAggcondtionMsg
    \/ AggNextRule
    \/ LockMessagesAgg
    \/ InsertAggMessage
    \/ PrintUniqueResults

Spec == Init /\ [][Next]_vars

(***************************************************************************)
(* Aggregation scenarios: one rule, a count over the records grouped by    *)
(* user, with every comparison and several thresholds; the batch ranges    *)
(* over two users and three minutes.                                       *)
(***************************************************************************)
AggRecordPool ==
    { Record(JNum(1), JStr(<<"p","c","1">>), JStr(<<u>>), t) :
          u \in {"a", "b"}, t \in 0..2 }

AggRuleKinds ==
    { Rule(JStr(<<"h","i","g","h">>), {1}, CountAgg(op, num, TRUE), JStr(<<"2","m">>)) :
          op \in {">", ">=", "==", "<", "<="}, num \in {0, 2, 3} }
    \cup { Rule(JStr(<<"h","i","g","h">>), {1}, NoAgg, JNull) }

InitAgg ==
    /\ \E kind \in AggRuleKinds :
           \E recs \in SeqsOf(AggRecordPool, 0, MaxAggRecords) :
               InitWith(WithPaths(<<kind>>), recs)
    /\ DetectionOnly

SpecAgg == InitAgg /\ [][Next]_vars

(***************************************************************************)
(* Severity scenarios: rules whose level ranges over spellings of the      *)
(* known levels, unknown words, the empty string and a missing level, on   *)
(* a batch of at most one record.                                          *)
(***************************************************************************)
LevelInputs ==
    { JStr(<<"h","i","g","h">>), JStr(<<"H","i","g","h">>), JStr(<<"H","I","G","H">>),
      JStr(<<"c","r","i","t","i","c","a","l">>), JStr(<<"M","e","d","i","u","m">>),
      JStr(<<"L","O","W">>),
      JStr(<<"i","n","f","o","r","m","a","t","i","o","n","a","l">>),
      JStr(<<"h","i","g","h","e","r">>), JStr(<<>>), JNull }

LevelRuleKinds ==
    { Rule(level, {1}, CountAgg(">=", 1, FALSE), JStr(<<"2","m">>)) : level \in LevelInputs }
    \cup { Rule(JStr(<<"l","o","w">>), {1}, NoAgg, JNull) }

InitLevels ==
    /\ \E kinds \in SeqsOf(LevelRuleKinds, 1, MaxLevelRules) :
           \E recs \in SeqsOf({Record(JNum(1), JStr(<<"p","c","1">>), JNull, 0)}, 0, 1) :
               InitWith(WithPaths(kinds), recs)
    /\ DetectionOnly

SpecLevels == InitLevels /\ [][Next]_vars

(***************************************************************************)
(* Alert scenarios: rules that select on the host beside one that counts   *)
(* event identifiers, on records of two hosts, one of them without an      *)
(* event identifier.                                                       *)
(***************************************************************************)
AlertRecordPool ==
    { Record(JNum(1), JStr(<<"p","c","1">>), JStr(<<"a">>), 0),
      Record(JNull, JStr(<<"p","c","1">>), JStr(<<"b">>), 1),
      Record(JNum(1), JStr(<<"p","c","2">>), JStr(<<"a">>), 2) }

AlertRuleKinds ==
    { HostRule(JStr(<<"h","i","g","h">>), {<<"p","c","1">>}, NoAgg, JNull),
      Rule(JStr(<<"l","o","w">>), {1}, CountAgg(">=", 1, TRUE), JStr(<<"2","m">>)) }

\* each rule of the alert scenarios is loaded from one file, once
InitAlerts ==
    /\ \E kinds \in SeqsOf(AlertRuleKinds, 1, MaxRules) :
           /\ \A i, j \in DOMAIN kinds : kinds[i] = kinds[j] => i = j
           /\ \E recs \in SeqsOf(AlertRecordPool, 0, MaxRecords) :
                  InitWith(WithPaths(kinds), recs)
    /\ DetectionOnly

SpecAlerts == InitAlerts /\ [][Next]_vars

(***************************************************************************)
(* Message scenarios: Detection::create_count_output called on the         *)
(* AggResult of an aggregation clause, for every comparison, with and      *)
(* without a count-field and a by-field.                                   *)
(***************************************************************************)
S_IMAGE == <<"I","m","a","g","e">>
S_USER == <<"U","s","e","r">>

\* an aggregation clause with its field names: the count-field (empty when
\* the clause is 'count()') and the by-field (JNull when it has none)
CountAggOn(field, by_field, op, num) ==
    [has |-> TRUE, op |-> op, num |-> num, by |-> by_field.kind = "str",
     field |-> field, by_field |-> by_field]

\* the AggResult the aggregation pass hands over for a bucket of the clause:
\* the key names the count-field, then "_" and the by-field when there is
\* one; condition_op_num is the operator label and the threshold
AggResultOf(agg) ==
    [key |-> agg.field \o (IF agg.by THEN <<"_">> \o agg.by_field.s ELSE <<>>),
     start_timedate |-> 0,
     condition_op_num |-> OpChars(agg.op) \o <<" ">> \o NatToString(agg.num),
     filepath |-> "a.evtx",
     data |-> 1]

CountAggKinds ==
    { CountAggOn(field, by_field, op, num) :
          field \in {S_IMAGE, <<>>}, by_field \in {JStr(S_USER), JNull},
          op \in {">", ">=", "==", "<", "<="}, num \in {0, 5, 10} }

InitFormat ==
    /\ \E agg \in CountAggKinds :
           \E timeframe \in {JStr(<<"5","m">>), JStr(<<"1","h">>)} :
               fmtArgs = <<Rule(JStr(<<"h","i","g","h">>), {1}, agg, timeframe),
                           AggResultOf(agg)>>
    /\ fmtRet = <<>>
    /\ NoDetection /\ NoRuleLoad /\ NoGeoIpCheck /\ NoGeoIpSearch

\* create_count_output(rule, agg_result) runs and returns its String
CreateCountOutputCall ==
    /\ fmtArgs # <<>>
    /\ fmtRet = <<>>
    /\ fmtRet' = <<CreateCountOutput(fmtArgs[1], fmtArgs[2])>>
    /\ UNCHANGED <<fmtArgs, detectionVars, loaderVars, geoCheckVars, geoCacheVars>>

NextFormat == CreateCountOutputCall

SpecFormat == InitFormat /\ [][NextFormat]_vars

(***************************************************************************)
(* Detection::parse_rule_files: the rule files read_dir found are turned   *)
(* into rules one by one; a rule whose init fails is reported and counted. *)
(*                                                                         *)
(* rulefile_loader is the ParseYaml after read_dir: [read_dir_ok, files,   *)
(* errorrule_count, ignorerule_count, rulecount]; a file is [path, yaml,   *)
(* init], init being the Result rule.init() gives for the rule made of it: *)
(* [ok, err_msgs].                                                         *)
(***************************************************************************)
InitOk == [ok |-> TRUE, err_msgs |-> <<>>]
InitErr(err_msgs) == [ok |-> FALSE, err_msgs |-> err_msgs]

\* the outcomes of rule.init(): Ok, or Err with one or with two messages
InitResults == {InitOk, InitErr(<<"e1">>), InitErr(<<"e1", "e2">>)}

\* rulefile_loader.files for the outcomes: the i-th file is rule<i>.yml
FilesOf(inits) ==
    [i \in 1..Len(inits) |-> [path |-> RulePath(i), yaml |-> i, init |-> inits[i]]]

InitLoad ==
    /\ \E inits \in SeqsOf(InitResults, 0, MaxFiles) :
           \E ok \in BOOLEAN, errors \in {0, 2}, ignored \in {0, 1} :
               rulefile_loader = [read_dir_ok |-> ok,
                                  files |-> IF ok THEN FilesOf(inits) ELSE <<>>,
                                  errorrule_count |-> errors,
                                  ignorerule_count |-> ignored,
                                  rulecount |-> IF ok THEN Len(inits) ELSE 0]
    /\ loadPc = "read_dir"
    /\ fileIdx = 1
    /\ ret = <<>>
    /\ parseerror_count = 0
    /\ warned = <<>>
    /\ loadInfo = <<>>
    /\ NoDetection /\ NoCountOutputCall /\ NoGeoIpCheck /\ NoGeoIpSearch

\* parse_rule_files: read_dir failed: the error is reported, vec![] returned
ReadDirFailed ==
    /\ loadPc = "read_dir"
    /\ ~rulefile_loader.read_dir_ok
    /\ ret' = <<>>
    /\ loadPc' = "returned"
    /\ UNCHANGED <<rulefile_loader, fileIdx, parseerror_count, warned, loadInfo>>
    /\ UNCHANGED <<detectionVars, formatVars, geoCheckVars, geoCacheVars>>

\* parse_rule_files: let mut parseerror_count = rulefile_loader.errorrule_count
ReadDirOk ==
    /\ loadPc = "read_dir"
    /\ rulefile_loader.read_dir_ok
    /\ parseerror_count' = rulefile_loader.errorrule_count
    /\ fileIdx' = 1
    /\ loadPc' = "parse"
    /\ UNCHANGED <<rulefile_loader, ret, warned, loadInfo>>
    /\ UNCHANGED <<detectionVars, formatVars, geoCheckVars, geoCacheVars>>

\* rule::create_rule(rule_file_tuple.0, rule_file_tuple.1)
CreateRule(file) == [rulepath |-> file.path, yaml |-> file.yaml]

\* variant: the tally is raised once per error message
ErrorCountPerMessage(count, err_msgs_result) ==
    count + Len(err_msgs_result.err_msgs)

\* return_if_success: parseerror_count after the rule's init
\* (err_msgs_result.err().iter().for_each(... parseerror_count += 1 ...))
ErrorCountAfter(count, err_msgs_result) ==
    IF err_msgs_result.ok THEN count ELSE count + 1

\* filter_map(return_if_success).collect(): the Vec after one more rule
Collected(rules, rule, err_msgs_result) ==
    IF err_msgs_result.ok THEN Append(rules, rule) ELSE rules

\* parse_rule_files: the next file: create_rule, then return_if_success
ParseRuleFile ==
    /\ loadPc = "parse"
    /\ fileIdx <= Len(rulefile_loader.files)
    /\ LET file == rulefile_loader.files[fileIdx]
           rule == CreateRule(file)
           err_msgs_result == file.init
       IN  /\ ret' = Collected(ret, rule, err_msgs_result)
           /\ parseerror_count' = ErrorCountAfter(parseerror_count, err_msgs_result)
           /\ warned' = IF err_msgs_result.ok THEN warned
                        ELSE Append(warned, rule.rulepath)
    /\ fileIdx' = fileIdx + 1
    /\ UNCHANGED <<rulefile_loader, loadPc, loadInfo>>
    /\ UNCHANGED <<detectionVars, formatVars, geoCheckVars, geoCacheVars>>

\* Detection::print_rule_load_info: the lines "Ignored rules", "Rule parsing
\* errors" and "Total detection rules"
RuleLoadInfo(rulecount, parseerror, ignore) ==
    [ignored |-> ignore, errors |-> parseerror,
     total |-> parseerror + ignore + rulecount]

\* parse_rule_files: every file is through: print_rule_load_info, return ret
PrintRuleLoadInfo ==
    /\ loadPc = "parse"
    /\ fileIdx > Len(rulefile_loader.files)
    /\ loadInfo' = <<RuleLoadInfo(rulefile_loader.rulecount, parseerror_count,
                                  rulefile_loader.ignorerule_count)>>
    /\ loadPc' = "returned"
    /\ UNCHANGED <<rulefile_loader, fileIdx, ret, parseerror_count, warned>>
    /\ UNCHANGED <<detectionVars, formatVars, geoCheckVars, geoCacheVars>>

NextLoad ==
    \/ ReadDirFailed
    \/ ReadDirOk
    \/ ParseRuleFile
    \/ PrintRuleLoadInfo

SpecLoad == InitLoad /\ [][NextLoad]_vars

(***************************************************************************)
(* GeoIPSearch::check_exist_geo_ip_files.                                  *)
(*                                                                         *)
(* A path and a text are sequences of pieces: a separator "/", a newline,  *)
(* a quote, or a run of other characters (a name, a constant text).        *)
(***************************************************************************)
\* Path::join: the file name appended behind a separator; an absolute file
\* name replaces the path
PathJoin(path, file_name) ==
    IF file_name # <<>> /\ file_name[1] = "/" THEN file_name
    ELSE IF path = <<>> \/ path[Len(path)] = "/" THEN path \o file_name
    ELSE path \o <<"/">> \o file_name

\* {mmdb_path:?}: the path between quotes, quotes and backslashes escaped
DebugPath(path) ==
    <<"\"">>
    \o Flatten([i \in 1..Len(path) |->
                   IF path[i] \in {"\"", "\\"} THEN <<"\\", path[i]>> ELSE <<path[i]>>])
    \o <<"\"">>

\* the message pushed on combined_err for a path that does not exist
CannotFind(mmdb_path) ==
    <<"Cannot find the appropriate MaxMind GeoIP database files. filepath: ">>
    \o DebugPath(mmdb_path)

\* Vec<String>::join("\n")
RECURSIVE JoinLines(_)
JoinLines(lines) ==
    IF lines = <<>> THEN <<>>
    ELSE IF Len(lines) = 1 THEN lines[1]
    ELSE lines[1] \o <<"\n">> \o JoinLines(Tail(lines))

\* Path::exists on the file system of the run
PathExists(fs, path) == path \in fs

\* variant: the loop ends at the first file that does not exist
RECURSIVE CombinedErrFirstOnly(_, _, _)
CombinedErrFirstOnly(fs, path, files) ==
    IF files = <<>> THEN <<>>
    ELSE LET mmdb_path == PathJoin(path, Head(files))
         IN  IF ~PathExists(fs, mmdb_path) THEN <<CannotFind(mmdb_path)>>
             ELSE CombinedErrFirstOnly(fs, path, Tail(files))

\* check_exist_geo_ip_files: combined_err after the loop over check_files
RECURSIVE CombinedErr(_, _, _)
CombinedErr(fs, path, files) ==
    IF files = <<>> THEN <<>>
    ELSE LET mmdb_path == PathJoin(path, Head(files))
         IN  (IF ~PathExists(fs, mmdb_path) THEN <<CannotFind(mmdb_path)>> ELSE <<>>)
             \o CombinedErr(fs, path, Tail(files))

\* Result<Option<PathBuf>, String>; an Option is <<>> (None) or <<v>>
CheckOk(value) == [kind |-> "Ok", value |-> value, text |-> <<>>]
CheckErr(text) == [kind |-> "Err", value |-> <<>>, text |-> text]

\* GeoIPSearch::check_exist_geo_ip_files(geo_ip_dir_path, check_files)
CheckExistGeoIpFiles(fs, dir_path, files) ==
    IF dir_path # <<>>
    THEN LET combined_err == CombinedErr(fs, dir_path[1], files)
         IN  IF combined_err = <<>> THEN CheckOk(dir_path)
             ELSE CheckErr(JoinLines(combined_err))
    ELSE CheckOk(<<>>)

\* the directories and the file names of the scenarios
GeoIpDirs == {<<"test_files", "/", "mmdb">>, <<"/", "opt", "/", "geoip", "/">>}
GeoIpFileNames ==
    {<<"GeoLite2-ASN.mmdb">>, <<"GeoLite2-Country.mmdb">>, <<"GeoLite2-City.mmdb">>}

InitGeoIpCheck ==
    /\ geo_ip_dir_path \in {<<>>} \cup {<<d>> : d \in GeoIpDirs}
    /\ check_files \in SeqsOf(GeoIpFileNames, 0, MaxCheckFiles)
    /\ existingFiles \in SUBSET {PathJoin(d, f) : d \in GeoIpDirs, f \in GeoIpFileNames}
    /\ checkRet = <<>>
    /\ NoDetection /\ NoCountOutputCall /\ NoRuleLoad /\ NoGeoIpSearch

\* check_exist_geo_ip_files runs and returns
CheckExistGeoIpFilesCall ==
    /\ checkRet = <<>>
    /\ checkRet' = <<CheckExistGeoIpFiles(existingFiles, geo_ip_dir_path, check_files)>>
    /\ UNCHANGED <<geo_ip_dir_path, check_files, existingFiles>>
    /\ UNCHANGED <<detectionVars, formatVars, loaderVars, geoCacheVars>>

NextGeoIpCheck == CheckExistGeoIpFilesCall

SpecGeoIpCheck == InitGeoIpCheck /\ [][NextGeoIpCheck]_vars

(***************************************************************************)
(* GeoIPSearch::convert_ip_to_geo: concurrent calls on one GeoIPSearch,    *)
(* which share the cache IP_MAP behind its Mutex.                          *)
(***************************************************************************)
\* the addresses the calls ask for
Addrs == {"10.0.0.1", "10.0.0.2"}

Calls == 1..Len(callPc)

\* variant: an address a reader does not hold yields default data
LookupOrDefault(reader, name, addr) ==
    [ok |-> TRUE, data |-> IF addr \in reader THEN <<name, addr>> ELSE <<name, "">>]

\* Reader::lookup(addr): Ok with the reader's data of the address, or Err
\* (AddressNotFoundError) when the reader does not hold it
Lookup(reader, name, addr) ==
    IF addr \in reader THEN [ok |-> TRUE, data |-> <<name, addr>>]
    ELSE [ok |-> FALSE, data |-> <<>>]

\* format!("{asn:#?}\u{1F985}{country:#?}\u{1F985}{city:#?}")
GeoData(asn, country, city) == <<asn, "|", country, "|", city>>

\* HashMap::insert
MapInsert(map, key, value) ==
    [k \in DOMAIN map \cup {key} |-> IF k = key THEN value ELSE map[k]]

GeoOk(value) == [kind |-> "Ok", value |-> value]
GeoErr == [kind |-> "Err", value |-> <<>>]

NoLocals == [cached_data |-> <<>>, asn |-> <<>>, country |-> <<>>, city |-> <<>>]

InitGeoIpSearch ==
    /\ readers \in [asn : SUBSET Addrs, country : SUBSET Addrs, city : SUBSET Addrs]
    /\ IP_MAP = <<>>
    /\ ipMapHolder = NoThread
    /\ \E n \in 1..MaxCalls :
           /\ callPc = [c \in 1..n |-> "start"]
           /\ callAddr \in [1..n -> Addrs]
           /\ callGeo = [c \in 1..n |-> NoLocals]
           /\ callRet = [c \in 1..n |-> <<>>]
           /\ callLookups = [c \in 1..n |-> 0]
    /\ NoDetection /\ NoCountOutputCall /\ NoRuleLoad /\ NoGeoIpCheck

\* IP_MAP.lock().unwrap() of the cache check
LockForGet(c) ==
    /\ callPc[c] = "start"
    /\ LockAvailable(ipMapHolder)
    /\ ipMapHolder' = c
    /\ callPc' = [callPc EXCEPT ![c] = "get"]
    /\ UNCHANGED <<readers, IP_MAP, callAddr, callGeo, callRet, callLookups>>
    /\ UNCHANGED <<detectionVars, formatVars, loaderVars, geoCheckVars>>

\* `if let Some(cached_data) = ... .get(&addr) { return Ok(...) }`; the
\* guard is dropped at the end of the statement
CacheGet(c) ==
    /\ callPc[c] = "get"
    /\ IF callAddr[c] \in DOMAIN IP_MAP
       THEN /\ callGeo' = [callGeo EXCEPT ![c].cached_data = <<IP_MAP[callAddr[c]]>>]
            /\ callRet' = [callRet EXCEPT ![c] = <<GeoOk(IP_MAP[callAddr[c]])>>]
            /\ callPc' = [callPc EXCEPT ![c] = "returned"]
       ELSE /\ callPc' = [callPc EXCEPT ![c] = "asn"]
            /\ UNCHANGED <<callGeo, callRet>>
    /\ ipMapHolder' = IF ipMapHolder = c THEN NoThread ELSE ipMapHolder
    /\ UNCHANGED <<readers, IP_MAP, callAddr, callLookups>>
    /\ UNCHANGED <<detectionVars, formatVars, loaderVars, geoCheckVars>>

\* `let x = self.<name>_reader.lookup(addr)?`: on Err the call returns it
LookupStep(c, name, next) ==
    /\ callPc[c] = name
    /\ LET result == Lookup(readers[name], name, callAddr[c])
       IN  IF result.ok
           THEN /\ callGeo' = [callGeo EXCEPT ![c][name] = <<result.data>>]
                /\ callPc' = [callPc EXCEPT ![c] = next]
                /\ UNCHANGED callRet
           ELSE /\ callRet' = [callRet EXCEPT ![c] = <<GeoErr>>]
                /\ callPc' = [callPc EXCEPT ![c] = "returned"]
                /\ UNCHANGED callGeo
    /\ callLookups' = [callLookups EXCEPT ![c] = @ + 1]
    /\ UNCHANGED <<readers, IP_MAP, ipMapHolder, callAddr>>
    /\ UNCHANGED <<detectionVars, formatVars, loaderVars, geoCheckVars>>

LookupAsn(c) == LookupStep(c, "asn", "country")
LookupCountry(c) == LookupStep(c, "country", "city")
LookupCity(c) == LookupStep(c, "city", "insert_lock")

\* IP_MAP.lock().unwrap() of the insertion
LockForInsert(c) ==
    /\ callPc[c] = "insert_lock"
    /\ LockAvailable(ipMapHolder)
    /\ ipMapHolder' = c
    /\ callPc' = [callPc EXCEPT ![c] = "insert"]
    /\ UNCHANGED <<readers, IP_MAP, callAddr, callGeo, callRet, callLookups>>
    /\ UNCHANGED <<detectionVars, formatVars, loaderVars, geoCheckVars>>

\* .insert(addr, CompactString::from(&geo_data)); Ok(geo_data)
CacheInsert(c) ==
    /\ callPc[c] = "insert"
    /\ LET geo_data == GeoData(callGeo[c].asn[1], callGeo[c].country[1], callGeo[c].city[1])
       IN  /\ IP_MAP' = MapInsert(IP_MAP, callAddr[c], geo_data)
           /\ callRet' = [callRet EXCEPT ![c] = <<GeoOk(geo_data)>>]
    /\ ipMapHolder' = IF ipMapHolder = c THEN NoThread ELSE ipMapHolder
    /\ callPc' = [callPc EXCEPT ![c] = "returned"]
    /\ UNCHANGED <<readers, callAddr, callGeo, callLookups>>
    /\ UNCHANGED <<detectionVars, formatVars, loaderVars, geoCheckVars>>

NextGeoIpSearch ==
    \/ \E c \in Calls : LockForGet(c)
    \/ \E c \in Calls : CacheGet(c)
    \/ \E c \in Calls : LookupAsn(c)
    \/ \E c \in Calls : LookupCountry(c)
    \/ \E c \in Calls : LookupCity(c)
    \/ \E c \in Calls : LockForInsert(c)
    \/ \E c \in Calls : CacheInsert(c)

SpecGeoIpSearch == InitGeoIpSearch /\ [][NextGeoIpSearch]_vars

(***************************************************************************)
(* Properties.                                                             *)
(***************************************************************************)
\* positions of the main thread after Detection::start has returned
AfterReturn == {"returned", "agg", "agg_lock", "agg_insert", "done"}

\* the task of a unit has run execute_rule to its end
Finished(pc) == pc \in {"done", "joined"}

\* the rule as it was loaded, without what a run accumulates in it
AsLoaded(rule) == [rule EXCEPT !.countdata = <<>>, !.duration = 0]

\* number of positions of the sequence whose element satisfies P
CountIn(seq, P(_)) == Cardinality({i \in 1..Len(seq) : P(seq[i])})

\* the alerts in the sink that carry the rule's identifier
AlertsOf(rulepath) == SelectSeq(messages, LAMBDA a : a.rulepath = rulepath)

\* C1 (join barrier): whenever Detection::start / execute_rules has returned
\* (so that the aggregation post pass or the summary can run), a unit was
\* spawned for every rule and every unit has run to its end; none is still
\* running or not yet started.
C1_JoinBarrier ==
    mainPc \in AfterReturn =>
        /\ Len(unitPc) = NumRules
        /\ \A u \in Units : Finished(unitPc[u])

\* a run with two units that both inserted alerts has returned
C1_Witness ==
    /\ mainPc = "returned"
    /\ NumRules >= 2
    /\ \A u \in Units : Finished(unitPc[u]) /\ AlertsOf(unitRule[u].rulepath) # <<>>

\* C2 (stable rule ordering): the collection execute_rules returns has the
\* length of the input and holds at each index i the rule that was at index
\* i of the input, as updated by its unit, whatever the order in which the
\* units ran and completed.
C2_StableRuleOrdering ==
    mainPc \in AfterReturn =>
        /\ Len(selfRules) = Len(inputRules)
        /\ \A i \in 1..Len(selfRules) :
               /\ AsLoaded(selfRules[i]) = inputRules[i]
               /\ i \in Units /\ selfRules[i] = unitRule[i]

\* a run has returned in which the unit of the second rule inserted its
\* alerts before the unit of the first rule inserted any
C2_Witness ==
    /\ mainPc = "returned"
    /\ Len(selfRules) >= 2
    /\ Len(messages) >= 2
    /\ messages[1].rulepath = selfRules[2].rulepath
    /\ messages[Len(messages)].rulepath = selfRules[1].rulepath

\* C3 (non-aggregating rule invariant): once the unit of a rule without an
\* aggregation clause has finished, every alert of that rule in the sink is
\* the alert of a record the selection matches, with the host and the event
\* identifier of that record, and every matching record of the batch has
\* exactly one alert (as many alerts as the batch holds copies of it).
C3_OneAlertPerMatch ==
    \A u \in Units :
        (Finished(unitPc[u]) /\ ~HasAggCondition(unitRule[u])) =>
            LET rule == unitRule[u]
                mine == AlertsOf(rule.rulepath)
            IN  /\ \A k \in 1..Len(mine) :
                       /\ Len(mine[k].record) = 1
                       /\ mine[k].record[1] \in {records[i] : i \in 1..NumRecords}
                       /\ SelectionMatches(rule, mine[k].record[1])
                       /\ mine[k].computername = ComputerName(mine[k].record[1])
                       /\ mine[k].eventid = EventIdString(mine[k].record[1])
                /\ \A i \in 1..NumRecords :
                       SelectionMatches(rule, records[i]) =>
                           CountIn(mine, LAMBDA a : a.record = <<records[i]>>)
                               = CountIn(records, LAMBDA r : r = records[i])

\* the unit of a rule without aggregation clause has finished on a batch
\* that holds a record it matches and a record it does not match
C3_Witness ==
    \E u \in Units :
        /\ Finished(unitPc[u]) /\ ~HasAggCondition(unitRule[u])
        /\ \E i, j \in 1..NumRecords :
               /\ SelectionMatches(unitRule[u], records[i])
               /\ ~SelectionMatches(unitRule[u], records[j])
        /\ Len(AlertsOf(unitRule[u].rulepath)) = 1

\* positions of the main thread inside or after add_aggcondtion_msg
InPostPass == {"agg", "agg_lock", "agg_insert", "done"}

\* the loaded rule that carries the identifier
RuleOfPath(rulepath) ==
    inputRules[CHOOSE i \in 1..NumRules : inputRules[i].rulepath = rulepath]

\* C4 (deferred aggregation alerts): a unit inserts no alert for a rule with
\* an aggregation clause: before the post pass add_aggcondtion_msg runs the
\* sink holds no alert of such a rule, and every alert of such a rule is one
\* built from an AggResult; once the post pass is through a rule, the sink
\* holds one alert per AggResult of that rule, and for a rule without an
\* aggregation clause the post pass has inserted nothing.
C4_DeferredAggregationAlerts ==
    /\ \A k \in 1..Len(messages) :
           IF HasAggCondition(RuleOfPath(messages[k].rulepath))
           THEN messages[k].record = <<>> /\ mainPc \in InPostPass
           ELSE messages[k].record # <<>>
    /\ \A i \in 1..Len(selfRules) :
           (mainPc \in {"agg", "done"} /\ i < aggIdx /\ HasAggCondition(selfRules[i])) =>
               LET results == JudgeSatisfyAggcondition(selfRules[i])
               IN  AlertsOf(selfRules[i].rulepath)
                       = [k \in 1..Len(results) |-> AggAlert(selfRules[i], results[k])]

\* the run is over: one rule with an aggregation clause matched records and
\* got no alert, another one got an alert from the post pass
C4_Witness ==
    /\ mainPc = "done"
    /\ \E i, j \in 1..Len(selfRules) :
           /\ HasAggCondition(selfRules[i]) /\ HasAggCondition(selfRules[j])
           /\ selfRules[i].countdata # <<>>
           /\ AlertsOf(selfRules[i].rulepath) = <<>>
           /\ AlertsOf(selfRules[j].rulepath) # <<>>

\* the rule after its selection ran on the first n records of the batch
RECURSIVE RuleAfter(_, _, _)
RuleAfter(rule, recs, n) ==
    IF n = 0 THEN rule ELSE SelectRule(RuleAfter(rule, recs, n - 1), recs[n])[2]

\* the alerts one rule alone yields on the batch, evaluated sequentially
AlertsExpectedOf(rule, recs) ==
    IF HasAggCondition(rule)
    THEN LET final == RuleAfter(rule, recs, Len(recs))
             results == JudgeSatisfyAggcondition(final)
         IN  [k \in 1..Len(results) |-> AggAlert(final, results[k])]
    ELSE LET matching == SelectSeq(recs, LAMBDA r : SelectionMatches(rule, r))
         IN  [k \in 1..Len(matching) |-> DirectAlert(rule, matching[k])]

\* the multiset of the elements of a sequence
BagOfSeq(seq) ==
    [x \in {seq[i] : i \in 1..Len(seq)} |-> CountIn(seq, LAMBDA y : y = x)]

\* C5 (determinism under interleaving): at the end of the run the multiset
\* of alerts in the sink is the one the rule set and the batch determine
\* (the alerts of each rule evaluated alone, in sequence), whatever the
\* interleaving of the units was.
C5_Determinism ==
    mainPc = "done" =>
        BagOfSeq(messages)
            = BagOfSeq(Flatten([i \in 1..NumRules |-> AlertsExpectedOf(inputRules[i], records)]))

\* the run is over and the alerts of two rules alternate in the sink
C5_Witness ==
    /\ mainPc = "done"
    /\ Len(messages) >= 3
    /\ messages[1].rulepath # messages[2].rulepath
    /\ messages[3].rulepath = messages[1].rulepath

\* number of records the unit has run its rule's selection on
Evaluated(u) ==
    IF unitPc[u] \in {"lock", "insert"} THEN unitIdx[u] ELSE unitIdx[u] - 1

\* C6 (no cross-rule leakage): the state of the rule a unit owns depends on
\* that rule and on the records the unit itself evaluated only: its
\* accumulated matches are those of its own selection on the records it has
\* seen, its duration is written by its own unit at its end, and the
\* AggResults computed for it are those of its own matches, whatever other
\* rules (with the same grouping field or not) run beside it.
C6_NoCrossRuleLeakage ==
    /\ \A u \in Units :
           /\ AsLoaded(unitRule[u]) = inputRules[u]
           /\ unitRule[u].countdata
                  = RuleAfter(inputRules[u], records, Evaluated(u)).countdata
           /\ unitRule[u].duration \in
                  (IF Finished(unitPc[u]) THEN 1..MaxElapsed ELSE {0})
    /\ \A i \in 1..Len(selfRules) :
           (mainPc \in InPostPass /\ HasAggCondition(selfRules[i])) =>
               JudgeSatisfyAggcondition(selfRules[i])
                   = JudgeSatisfyAggcondition(RuleAfter(inputRules[i], records, NumRecords))

\* two rules that group by the same field ran on a batch with a record that
\* only the first of them matches, and the post pass has begun
C6_Witness ==
    /\ mainPc \in InPostPass
    /\ \E i, j \in 1..Len(selfRules) :
           /\ i # j
           /\ selfRules[i].agg.has /\ selfRules[j].agg.has
           /\ selfRules[i].agg.by = selfRules[j].agg.by
           /\ \E n \in 1..NumRecords :
                  /\ SelectionMatches(selfRules[i], records[n])
                  /\ ~SelectionMatches(selfRules[j], records[n])
           /\ Len(selfRules[i].countdata) > Len(selfRules[j].countdata)

\* the threads that are inside an insertion into the sink
Inserting ==
    {u \in Units : unitPc[u] = "insert"}
        \cup (IF mainPc = "agg_insert" THEN {MainThread} ELSE {})

\* C7 (sink mutual exclusion): a thread inside an insertion into MESSAGES
\* holds its lock, at most one thread is inside an insertion at a time, and
\* no insertion is lost: the sink holds one alert per insert call that is
\* through (so, after all units finished, as many alerts as calls made).
C7_SinkMutualExclusion ==
    /\ \A t \in Inserting : lockHolder = t
    /\ Cardinality(Inserting) <= 1
    /\ Len(messages) + Cardinality(Inserting) = insertCalls

\* one unit is inside an insertion while another one waits for the lock,
\* after an earlier insertion
C7_Witness ==
    \E u, v \in Units :
        /\ unitPc[u] = "insert" /\ unitPc[v] = "lock"
        /\ Len(messages) >= 1

\* the (grouping key, window) buckets of the rule's accumulated matches
BucketsOf(rule) ==
    {BucketOf(rule.countdata, TimeframeMinutes(rule), rule.countdata[n]) :
         n \in 1..Len(rule.countdata)}

\* the number of matched records in the bucket
BucketCount(rule, b) ==
    Cardinality(BucketMembers(rule.countdata, TimeframeMinutes(rule), b))

\* the buckets whose count satisfies the rule's comparison
SatisfiedBuckets(rule) ==
    {b \in BucketsOf(rule) : CompareCount(rule.agg.op, BucketCount(rule, b), rule.agg.num)}

\* the AggResults of the rule that belong to the bucket
ResultsOfBucket(rule, b) ==
    SelectSeq(JudgeSatisfyAggcondition(rule),
              LAMBDA r : /\ r.key = b[1]
                         /\ r.start_timedate
                                = KeyAnchor(rule.countdata, b[1]) + b[2] * TimeframeMinutes(rule))

\* C8 (aggregation threshold boundary): at the end of the run, for every
\* (grouping key, window) bucket of a rule with an aggregation clause the
\* aggregation pass has emitted exactly one AggResult, and the post pass
\* exactly one alert, when the bucket's count satisfies the configured
\* comparison against the threshold, and none otherwise; with '>= 3' a
\* bucket of exactly 2 records yields nothing and one of exactly 3 yields
\* exactly one.
C8_ThresholdBoundary ==
    mainPc = "done" =>
        \A i \in 1..Len(selfRules) :
            HasAggCondition(selfRules[i]) =>
                LET rule == selfRules[i]
                    width == TimeframeMinutes(rule)
                IN  /\ \A b \in BucketsOf(rule) :
                           LET due == IF b \in SatisfiedBuckets(rule) THEN 1 ELSE 0
                           IN  /\ Len(ResultsOfBucket(rule, b)) = due
                               /\ CountIn(AlertsOf(rule.rulepath),
                                          LAMBDA a : a = AggAlert(rule, MakeAggResult(rule, width, b)))
                                      = due
                               /\ (rule.agg.op = ">=" /\ rule.agg.num = 3 /\ BucketCount(rule, b) = 2)
                                      => due = 0
                               /\ (rule.agg.op = ">=" /\ rule.agg.num = 3 /\ BucketCount(rule, b) = 3)
                                      => due = 1
                    /\ Len(AlertsOf(rule.rulepath)) = Cardinality(SatisfiedBuckets(rule))

\* the run is over for a rule with threshold '>= 3' that has a bucket of
\* exactly 3 records, and the sink holds its one alert
C8_Witness ==
    /\ mainPc = "done"
    /\ \E i \in 1..Len(selfRules) :
           /\ selfRules[i].agg.has /\ selfRules[i].agg.op = ">=" /\ selfRules[i].agg.num = 3
           /\ \E b \in BucketsOf(selfRules[i]) : BucketCount(selfRules[i], b) = 3
           /\ Len(AlertsOf(selfRules[i].rulepath)) = 1

\* the values of the six severity lines print_unique_results printed
PrintedValues == [p \in 1..Len(LevelLabel) |-> printed[p].value]

\* the rules that produced at least one alert, direct or aggregated
RulesWithAlerts == {i \in 1..Len(selfRules) : AlertsOf(selfRules[i].rulepath) # <<>>}

\* C9 (rule-level uniqueness): in the summary every rule that produced at
\* least one alert (direct or aggregated) adds exactly 1 to one severity
\* counter and a rule that produced none adds 0: the counters add up to the
\* number of rules with an alert, and so does the printed total.
C9_RuleLevelUniqueness ==
    mainPc = "done" =>
        /\ SumSeq(PrintedValues) = Cardinality(RulesWithAlerts)
        /\ printed[Len(printed)].value = Cardinality(RulesWithAlerts)

LowerChar(c) ==
    IF \E i \in 1..Len(UpperChars) : UpperChars[i] = c
    THEN LowerChars[CHOOSE i \in 1..Len(UpperChars) : UpperChars[i] = c]
    ELSE c

\* the two strings are equal up to the case of their letters
EqualsIgnoreCase(a, b) ==
    Len(a) = Len(b) /\ \A i \in 1..Len(a) : LowerChar(a[i]) = LowerChar(b[i])

\* the severity a level value stands for: one of the five known levels in
\* any case, Undefined for every other string and for a missing level
SeverityOf(level) ==
    IF level.kind # "str" THEN "Undefined"
    ELSE IF EqualsIgnoreCase(level.s, S_CRITICAL) THEN "Critical"
    ELSE IF EqualsIgnoreCase(level.s, S_HIGH) THEN "High"
    ELSE IF EqualsIgnoreCase(level.s, S_MEDIUM) THEN "Medium"
    ELSE IF EqualsIgnoreCase(level.s, S_LOW) THEN "Low"
    ELSE IF EqualsIgnoreCase(level.s, S_INFORMATIONAL) THEN "Informational"
    ELSE "Undefined"

\* C10 (severity classification): the summary prints the severities from
\* Critical down to Undefined, and the value printed next to a label is the
\* number of counted rules whose level, compared without regard to case, is
\* that severity; a rule whose level is unrecognized or missing is counted
\* under Undefined.
C10_SeverityClassification ==
    mainPc = "done" =>
        /\ Len(printed) = Len(LevelLabel) + 1
        /\ \A p \in 1..Len(LevelLabel) :
               /\ printed[p].label = LevelLabel[p]
               /\ printed[p].value
                      = Cardinality({i \in 1..Len(selfRules) :
                                        /\ CheckExistCountdata(selfRules[i])
                                        /\ SeverityOf(selfRules[i].level) = LevelLabel[p]})

\* the summary counted a rule whose level is a lower or mixed case spelling
\* of High under High and a rule with a missing level under Undefined
C10_Witness ==
    /\ mainPc = "done"
    /\ \E i, j \in 1..Len(selfRules) :
           /\ CheckExistCountdata(selfRules[i]) /\ CheckExistCountdata(selfRules[j])
           /\ selfRules[i].level.kind = "str"
           /\ selfRules[i].level.s # S_HIGH /\ ToUppercase(selfRules[i].level.s) = S_HIGH
           /\ selfRules[j].level.kind = "null"
    /\ printed[2].value = 1
    /\ printed[6].value = 1

\* the message of an aggregated alert as the format prescribes it:
\* "count(<field>) by <by-field> <operator> <threshold> in <timeframe>.",
\* without the "by <by-field>" text when the clause has no by-field
CountMessage(agg, timeframe) ==
    <<"c","o","u","n","t","(">> \o agg.field \o <<")">>
    \o (IF agg.by THEN <<" ","b","y"," ">> \o agg.by_field.s ELSE <<>>)
    \o <<" ">> \o OpChars(agg.op) \o <<" ">> \o NatToString(agg.num)
    \o <<" ","i","n"," ">> \o timeframe \o <<".">>

\* "count(Image) by User >= 5 in 5m."
S_COUNT_IMAGE_BY_USER ==
    <<"c","o","u","n","t","(","I","m","a","g","e",")"," ","b","y"," ","U","s","e","r",
      " ",">","="," ","5"," ","i","n"," ","5","m",".">>

\* C11 (aggregated message format): the message create_count_output returns
\* for an aggregation clause is "count(<primary-grouping-field>) by
\* <secondary-grouping-field> <operator> <threshold> in <timeframe>.", the
\* "by <secondary>" text omitted when there is no secondary grouping field;
\* for count-field Image, by-field User, operator >=, threshold 5 and
\* timeframe 5m it is exactly "count(Image) by User >= 5 in 5m.".
C11_AggregatedMessageFormat ==
    fmtRet # <<>> =>
        LET agg == fmtArgs[1].agg
        IN  /\ fmtRet[1] = CountMessage(agg, fmtArgs[1].timeframe.s)
            /\ (/\ agg.field = S_IMAGE /\ agg.by /\ agg.by_field.s = S_USER
                /\ agg.op = ">=" /\ agg.num = 5
                /\ fmtArgs[1].timeframe.s = <<"5","m">>)
                   => fmtRet[1] = S_COUNT_IMAGE_BY_USER

\* C12 (alert well-formedness): every alert in the sink, inserted by a
\* direct match (insert_message) or for an aggregation result
\* (insert_agg_message), carries a non-empty rule identifier and a non-empty
\* severity, also when the level of its rule is missing or not a string.
C12_AlertWellFormedness ==
    \A k \in 1..Len(messages) :
        /\ messages[k].rulepath # ""
        /\ messages[k].level # <<>>

\* the units whose task panicked
Panicked == {u \in Units : unitPc[u] = "panicked"}

\* C13 (a concurrency fault is fatal to the run): once the unit of one rule
\* has panicked, execute_rules returns no rule collection at all: the main
\* thread never gets past the await of that unit's handle (it panics there),
\* so no partial or reordered collection comes back; and the failure leaves
\* the other units as they are: each of them still holds the state its own
\* rule reaches on the records it evaluated, and one that ran to its end has
\* inserted the alerts of its rule.
C13_ConcurrencyFaultFatal ==
    /\ Panicked # {} => (mainPc \notin AfterReturn /\ selfRules = <<>>)
    /\ mainPc = "panicked" =>
           /\ joinIdx \in Panicked
           /\ Len(joined) = joinIdx - 1
           /\ selfRules = <<>>
    /\ mainPc \in AfterReturn => Len(selfRules) = NumRules
    /\ \A v \in Units \ Panicked :
           /\ unitRule[v].countdata
                  = RuleAfter(inputRules[v], records, Evaluated(v)).countdata
           /\ (Finished(unitPc[v]) /\ ~HasAggCondition(unitRule[v])) =>
                  AlertsOf(unitRule[v].rulepath) = AlertsExpectedOf(inputRules[v], records)

\* the unit of the first rule panicked, the main thread panicked at its
\* handle, and the unit of the second rule ran to its end and inserted alerts
C13_Witness ==
    /\ mainPc = "panicked"
    /\ Len(unitPc) = 2
    /\ unitPc[1] = "panicked" /\ unitPc[2] = "done"
    /\ AlertsOf(unitRule[2].rulepath) # <<>>

\* the record falls in the window that starts at `start`: from start up to,
\* not including, start + width (every time when the windows are unbounded)
InWindow(rec, start, width) ==
    width = 0 \/ (start <= rec.time /\ rec.time < start + width)

\* C14 (zero-count limitation): every alert the post pass inserts for a rule
\* with an aggregation clause is the alert of a (grouping key, window) bucket
\* in which the batch has at least one record the rule matches; no AggResult
\* is emitted for a bucket without an observed record, so a rule whose
\* condition is 'count == 0' gets no AggResult and no alert, whatever the
\* batch.
C14_ZeroCountLimitation ==
    \A i \in 1..Len(selfRules) :
        HasAggCondition(selfRules[i]) =>
            LET rule == selfRules[i]
                width == TimeframeMinutes(rule)
                mine == AlertsOf(rule.rulepath)
            IN  /\ \A k \in 1..Len(mine) :
                       \E n \in 1..NumRecords :
                           /\ SelectionMatches(rule, records[n])
                           /\ InWindow(records[n], mine[k].time, width)
                           /\ \E b \in BucketsOf(rule) :
                                  /\ b[1] = CountKey(rule, records[n])
                                  /\ BucketCount(rule, b) >= 1
                                  /\ mine[k] = AggAlert(rule, MakeAggResult(rule, width, b))
                /\ (rule.agg.op = "==" /\ rule.agg.num = 0) =>
                       /\ mine = <<>>
                       /\ mainPc \in InPostPass => JudgeSatisfyAggcondition(rule) = <<>>

\* the run is over for a rule with the condition 'count == 0' on a batch
\* with two or more matching records: the sink holds no alert of the rule
C14_Witness ==
    /\ mainPc = "done"
    /\ \E i \in 1..Len(selfRules) :
           /\ selfRules[i].agg.has
           /\ selfRules[i].agg.op = "==" /\ selfRules[i].agg.num = 0
           /\ Len(selfRules[i].countdata) >= 2
           /\ AlertsOf(selfRules[i].rulepath) = <<>>

\* the files among the first n whose rule passes, resp. fails, its init
PassingFiles(n) == {i \in 1..n : rulefile_loader.files[i].init.ok}
FailingFiles(n) == {i \in 1..n : ~rulefile_loader.files[i].init.ok}

\* C15 (rule validation errors are recovered at the boundary): while and
\* after parse_rule_files goes through the rule files, each file whose rule
\* fails its init is left out of the returned rules, is reported and has
\* raised the error tally by exactly one; each file whose rule passes is in
\* the returned rules, once, and the returned rules are in file order; a
\* failing rule neither ends the load nor removes another rule.
C15_RuleValidationErrors ==
    loadPc \in {"parse", "returned"} /\ rulefile_loader.read_dir_ok =>
        LET done == fileIdx - 1
        IN  /\ Len(ret) = Cardinality(PassingFiles(done))
            /\ \A i \in PassingFiles(done) :
                   \E k \in 1..Len(ret) :
                       /\ ret[k] = CreateRule(rulefile_loader.files[i])
                       /\ k = Cardinality(PassingFiles(i))
            /\ \A i \in FailingFiles(done) :
                   /\ \A k \in 1..Len(ret) : ret[k].rulepath # rulefile_loader.files[i].path
                   /\ \E k \in 1..Len(warned) :
                          /\ warned[k] = rulefile_loader.files[i].path
                          /\ k = Cardinality(FailingFiles(i))
            /\ parseerror_count
                   = rulefile_loader.errorrule_count + Cardinality(FailingFiles(done))
            /\ loadPc = "returned" =>
                   /\ done = Len(rulefile_loader.files)
                   /\ loadInfo[1].errors = parseerror_count

\* the load has returned: a rule with two error messages failed between two
\* rules that passed, and both of those were returned
C15_Witness ==
    /\ loadPc = "returned"
    /\ Len(rulefile_loader.files) = 3
    /\ rulefile_loader.files[2].init = InitErr(<<"e1", "e2">>)
    /\ Len(ret) = 2
    /\ ret[1].rulepath = RulePath(1) /\ ret[2].rulepath = RulePath(3)
    /\ parseerror_count = rulefile_loader.errorrule_count + 1

\* the text cut at its newlines
RECURSIVE SplitAtNewlines(_)
SplitAtNewlines(text) ==
    IF \E i \in 1..Len(text) : text[i] = "\n"
    THEN LET p == CHOOSE i \in 1..Len(text) :
                     text[i] = "\n" /\ \A j \in 1..(i - 1) : text[j] # "\n"
         IN  <<SubSeq(text, 1, p - 1)>> \o SplitAtNewlines(SubSeq(text, p + 1, Len(text)))
    ELSE <<text>>

\* the positions of check_files whose file is not in the directory
MissingFiles(dir) ==
    {i \in 1..Len(check_files) :
         dir \o (IF dir[Len(dir)] = "/" THEN <<>> ELSE <<"/">>) \o check_files[i]
             \notin existingFiles}

\* C16 (GeoIP file check): check_exist_geo_ip_files returns Ok(None) when no
\* directory is given; when one is given it returns Ok(that directory) if
\* and only if every listed file exists in it, and otherwise Err with a text
\* that holds, line by line, one 'Cannot find the appropriate MaxMind GeoIP
\* database files. filepath: "<path>"' per missing file, in the order the
\* files were listed: all missing files, not only the first.
C16_GeoIpFileCheck ==
    checkRet # <<>> =>
        IF geo_ip_dir_path = <<>>
        THEN checkRet[1] = [kind |-> "Ok", value |-> <<>>, text |-> <<>>]
        ELSE LET dir == geo_ip_dir_path[1]
                 missing == MissingFiles(dir)
                 lines == SplitAtNewlines(checkRet[1].text)
             IN  /\ checkRet[1].kind = "Ok" <=> missing = {}
                 /\ checkRet[1].kind = "Ok" => checkRet[1].value = <<dir>>
                 /\ checkRet[1].kind = "Err" =>
                        /\ Len(lines) = Cardinality(missing)
                        /\ \A i \in missing :
                               LET k == Cardinality({j \in missing : j <= i})
                                   path == SubSeq(lines[k], 3, Len(lines[k]) - 1)
                               IN  /\ lines[k][1] = "Cannot find the appropriate MaxMind GeoIP database files. filepath: "
                                   /\ lines[k][2] = "\"" /\ lines[k][Len(lines[k])] = "\""
                                   /\ Len(path) >= 1
                                   /\ path[Len(path)] = check_files[i][1]
                                   /\ SubSeq(path, 1, Len(dir)) = dir

\* the check has returned Err with two lines: of three listed files the
\* first and the last are missing and the one between them exists
C16_Witness ==
    /\ checkRet # <<>>
    /\ geo_ip_dir_path # <<>>
    /\ Len(check_files) = 3
    /\ MissingFiles(geo_ip_dir_path[1]) = {1, 3}
    /\ checkRet[1].kind = "Err"
    /\ Len(SplitAtNewlines(checkRet[1].text)) = 2

\* number of records the unit is through with: evaluated and, when the
\* record matched a rule without aggregation clause, its alert inserted
ThroughWith(u) == unitIdx[u] - 1

\* the records among the first n of the batch that the rule matches, in the
\* order of the batch
MatchingUpTo(rule, n) ==
    SelectSeq(SubSeq(records, 1, n), LAMBDA r : SelectionMatches(rule, r))

\* C17 (in-order evaluation within a unit): the unit of a rule evaluates
\* the records of the batch one after the other in the order of the batch,
\* each exactly once: the matches its rule has accumulated are those among
\* the records it has evaluated, in batch order, and the alerts of a rule
\* without aggregation clause stand in the sink in record order (the alert
\* of record i before that of record i+1), one per matching record the unit
\* is through with. Between the alerts of different rules no order holds.
C17_InOrderEvaluation ==
    \A u \in Units :
        LET rule == unitRule[u]
            seen == MatchingUpTo(rule, Evaluated(u))
            through == MatchingUpTo(rule, ThroughWith(u))
        IN  /\ unitIdx[u] \in 1..(NumRecords + 1)
            /\ Finished(unitPc[u]) => unitIdx[u] = NumRecords + 1
            /\ rule.countdata = [k \in 1..Len(seen) |-> CountEntry(rule, seen[k])]
            /\ ~HasAggCondition(rule) =>
                   AlertsOf(rule.rulepath)
                       = [k \in 1..Len(through) |-> DirectAlert(rule, through[k])]

\* a rule without aggregation clause ran, next to the unit of a second
\* rule, on a batch of two different records it matches: its two alerts
\* stand in the sink in the order of the records
C17_Witness ==
    /\ mainPc = "returned"
    /\ NumRecords = 2 /\ records[1] # records[2]
    /\ Len(selfRules) = 2
    /\ ~HasAggCondition(selfRules[1])
    /\ selfRules[2].countdata # <<>>
    /\ Len(messages) >= 2
    /\ messages[1] = DirectAlert(selfRules[1], records[1])
    /\ messages[2] = DirectAlert(selfRules[1], records[2])

\* the text is the decimal numeral of n
IsNumeralOf(text, n) ==
    /\ text # <<>>
    /\ \A i \in 1..Len(text) : IsDigit(text[i])
    /\ ParseNat(text) = n

\* C18 (host and event-identifier fields): every aggregated alert in the
\* sink has the host "-" and the event identifier "-"; every direct-match
\* alert has the host of its record and the event identifier of its record
\* (the numeral of a numeric identifier), and its event identifier is "-"
\* only when the record has none.
C18_HostAndEventIdFields ==
    \A k \in 1..Len(messages) :
        LET a == messages[k]
        IN  IF HasAggCondition(RuleOfPath(a.rulepath))
            THEN a.computername = <<"-">> /\ a.eventid = <<"-">>
            ELSE /\ Len(a.record) = 1
                 /\ LET rec == a.record[1]
                    IN  /\ rec.computer.kind = "str" => a.computername = rec.computer.s
                        /\ rec.eventid.kind = "num" => IsNumeralOf(a.eventid, rec.eventid.n)
                        /\ rec.eventid.kind = "str" => a.eventid = rec.eventid.s
                        /\ a.eventid = <<"-">> <=> rec.eventid.kind = "null"

\* the sink holds an aggregated alert, the alert of a record with an event
\* identifier and the alert of a record without one
C18_Witness ==
    /\ mainPc = "done"
    /\ \E i, j, k \in 1..Len(messages) :
           /\ messages[i].record = <<>> /\ messages[i].computername = <<"-">>
           /\ Len(messages[j].record) = 1 /\ messages[j].record[1].eventid.kind = "num"
           /\ messages[j].eventid = <<"1">>
           /\ Len(messages[k].record) = 1 /\ messages[k].record[1].eventid.kind = "null"
           /\ messages[k].eventid = <<"-">>
           /\ messages[k].computername = <<"p","c","1">>

\* the positions of the batch whose record the rule matches under the key
MatchedUnderKey(rule, key) ==
    {n \in 1..NumRecords :
         SelectionMatches(rule, records[n]) /\ CountKey(rule, records[n]) = key}

\* the timestamp of the first record of the batch registered under the key
FirstTimeOfKey(rule, key) ==
    records[CHOOSE n \in MatchedUnderKey(rule, key) :
                \A m \in MatchedUnderKey(rule, key) : n <= m].time

\* the alerts of the rule in the sink that stand for the bucket of the key
\* whose window holds the record
AlertsCovering(rule, rec) ==
    {k \in 1..Len(AlertsOf(rule.rulepath)) :
         LET a == AlertsOf(rule.rulepath)[k]
         IN  /\ a.detail = CreateCountOutput(rule,
                               [key |-> CountKey(rule, rec),
                                condition_op_num |-> OpChars(rule.agg.op) \o <<" ">>
                                                     \o NatToString(rule.agg.num)])
             /\ InWindow(rec, a.time, TimeframeMinutes(rule))}

\* C19 (window anchoring per key): at the end of the run the aggregated
\* alerts of a rule stand for buckets of (grouping key, window) whose windows
\* are anchored, key by key, at the timestamp of the first record of the
\* batch registered under that key: every alert's window starts a whole
\* number of window lengths from that timestamp and holds a matched record
\* of its key; when every non-empty bucket satisfies the condition
\* ('count > 0', 'count >= 0'), every matched record is in the bucket of
\* exactly one alert, and that alert is of the record's own key.
C19_WindowAnchoringPerKey ==
    mainPc = "done" =>
        \A i \in 1..Len(selfRules) :
            HasAggCondition(selfRules[i]) =>
                LET rule == selfRules[i]
                    width == TimeframeMinutes(rule)
                    mine == AlertsOf(rule.rulepath)
                    matched == {n \in 1..NumRecords : SelectionMatches(rule, records[n])}
                IN  /\ \A k \in 1..Len(mine) :
                           \E n \in matched :
                               /\ k \in AlertsCovering(rule, records[n])
                               /\ (mine[k].time
                                     - FirstTimeOfKey(rule, CountKey(rule, records[n])))
                                      % width = 0
                    /\ (rule.agg.op \in {">", ">="} /\ rule.agg.num = 0) =>
                           \A n \in matched :
                               Cardinality(AlertsCovering(rule, records[n])) = 1

\* the run is over for a rule 'count > 0' on a batch in which a key's second
\* record is earlier than its first and a second key comes in between: the
\* first key has two buckets, anchored at its first record, not at the
\* earliest one
C19_Witness ==
    /\ mainPc = "done"
    /\ Len(selfRules) = 1
    /\ selfRules[1].agg.has /\ selfRules[1].agg.op = ">" /\ selfRules[1].agg.num = 0
    /\ NumRecords = 3
    /\ records[1].user = records[3].user /\ records[2].user # records[1].user
    /\ records[1].time = 1 /\ records[3].time = 0 /\ records[2].time = 2
    /\ Len(messages) = 3
    /\ {messages[k].time : k \in 1..3} = {1, -1, 2}

\* the address is held by all three readers
FullyFound(a) == a \in readers.asn /\ a \in readers.country /\ a \in readers.city

\* the text of a fully successful lookup of the address
SuccessfulLookupOf(a) == <<<<"asn", a>>, "|", <<"country", a>>, "|", <<"city", a>>>>

\* the step keeps every entry of the cache, and a call that returns an
\* error in the step leaves the cache as it was
CacheStepConsistent ==
    /\ \A a \in DOMAIN IP_MAP : a \in DOMAIN IP_MAP' /\ IP_MAP'[a] = IP_MAP[a]
    /\ \A c \in Calls :
           (callRet[c] = <<>> /\ callRet'[c] = <<GeoErr>>) => IP_MAP' = IP_MAP

\* C20: under every interleaving of concurrent calls of convert_ip_to_geo,
\* the cache maps an address only to the value of a fully successful lookup
\* of that address (the ASN, country and city readers all found it), a call
\* whose lookup failed leaves the cache unchanged, an entry once inserted
\* never changes to another value, and a call that found an entry returned
\* that entry without having made a lookup.
C20_GeoIpCacheConsistency ==
    /\ [](/\ \A a \in DOMAIN IP_MAP :
                FullyFound(a) /\ IP_MAP[a] = SuccessfulLookupOf(a)
          /\ \A c \in Calls :
                callGeo[c].cached_data # <<>> =>
                    /\ callRet[c] = <<GeoOk(callGeo[c].cached_data[1])>>
                    /\ callGeo[c].cached_data[1] = IP_MAP[callAddr[c]]
                    /\ callLookups[c] = 0)
    /\ [][CacheStepConsistent]_vars

\* two concurrent calls for the same address both missed the cache, both
\* completed the three lookups and both inserted
C20_Witness ==
    \E c1, c2 \in Calls :
        /\ c1 # c2
        /\ callAddr[c1] = callAddr[c2]
        /\ callPc[c1] = "returned" /\ callPc[c2] = "returned"
        /\ callLookups[c1] = 3 /\ callLookups[c2] = 3
        /\ callAddr[c1] \in DOMAIN IP_MAP

====
